---- MODULE Spec2Model ----
(***************************************************************************)
(* Model of src/fleetctrl/pooling/objectives.py: the factory               *)
(* return_pooling_objective_function, which selects one of fourteen        *)
(* control objective functions by "func_key", and the wrapper              *)
(* embedded_control_f it returns.                                          *)
(*                                                                         *)
(* Numbers.  The program computes with Python floats.  Here every score,   *)
(* weight and reward is an exact decimal fixed-point number: a value x is  *)
(* held as the integer x * Scale.  Values that exceed the range of the     *)
(* checker's integers (LARGE_INT * 10000 and its multiples) are held as a  *)
(* pair [hi, lo] denoting hi * Base + lo with 0 <= lo < Base.              *)
(***************************************************************************)
EXTENDS Integers, Sequences, FiniteSets, TLC

VARIABLES
    vr_control_func_dict,  \* the configuration handed to the factory, None before
    evaluator,             \* the closure the factory returned, None if it has not
    build_exc,             \* the exception the factory raised, None if it did not
    call,                  \* the arguments of the latest call of embedded_control_f
    outcome,               \* what that call returned or raised
    log,                   \* the records the latest operation wrote to LOG
    frames                 \* the calls of concurrent callers, step by step

vars == <<vr_control_func_dict, evaluator, build_exc, call, outcome, log, frames>>

----------------------------------------------------------------------------
(* Optional values: Python's None and a present value. *)
None == <<>>
Some(v) == <<v>>
IsNone(x) == x = <<>>
Val(x) == x[1]

----------------------------------------------------------------------------
(* Fixed-point numbers. *)
Scale == 10 ^ 4
Base == 10 ^ 6

Norm(h, l) == [hi |-> h + (l \div Base), lo |-> l % Base]
N(n) == Norm(0, n)
NZero == N(0)
NAdd(a, b) == Norm(a.hi + b.hi, a.lo + b.lo)
NNeg(a) == Norm(0 - a.hi, 0 - a.lo)
NSub(a, b) == Norm(a.hi - b.hi, a.lo - b.lo)
NMulSmall(a, k) == Norm(a.hi * k, a.lo * k)

RECURSIVE NMulNat(_, _)
NMulNat(a, k) ==
    IF k < 1000 THEN NMulSmall(a, k)
    ELSE NAdd(NMulSmall(NMulNat(a, k \div 1000), 1000), NMulSmall(a, k % 1000))

NMul(a, k) == IF k < 0 THEN NNeg(NMulNat(a, 0 - k)) ELSE NMulNat(a, k)
NLess(a, b) == a.hi < b.hi \/ (a.hi = b.hi /\ a.lo < b.lo)
NLeq(a, b) == a = b \/ NLess(a, b)
(* An integer quantity (metres, seconds, a reward) as a score. *)
Plain(n) == NMul(N(n), Scale)

----------------------------------------------------------------------------
(* Module constants. *)
LARGE_INT == 1000000
MAX_DISTANCE == 100 * 1000
MAX_DELAY == 2 * 60 * 60
MAX_BASE_DISTANCE_COST == (100 * Scale) \div 1000

(* 10 ** np.ceil(np.log10(x)) for x >= 0: the smallest power of ten that   *)
(* is >= x; np.log10(0) is -inf and 10 ** -inf is 0.0.  The argument is x  *)
(* * Scale and so is the result (Scale is itself a power of ten).          *)
RECURSIVE Pow10From(_, _)
Pow10From(p, x) == IF p >= x THEN p ELSE Pow10From(10 * p, x)

Pow10Ceil(x) == IF x = 0 THEN 0 ELSE Pow10From(1, x)

----------------------------------------------------------------------------
(* The routing engine: a stateless lookup.  return_travel_costs_1to1(o, d) *)
(* answers (cost, travel time, distance); Python's [1] and [2] are the     *)
(* second and third component.                                             *)
Positions == {"A", "B", "C"}

Leg(o, d) == IF o \in {"A", "B"} /\ d \in {"A", "B"} THEN <<60, 60, 500>>
             ELSE IF o \in {"B", "C"} /\ d \in {"B", "C"} THEN <<40, 40, 300>>
             ELSE <<90, 90, 700>>

return_travel_costs_1to1(o, d) == IF o = d THEN <<0, 0, 0>> ELSE Leg(o, d)

(* src.misc.globals: the request status from which a request counts as locked. *)
G_PRQS_LOCKED == 3

----------------------------------------------------------------------------
(* The factory: return_pooling_objective_function(vr_control_func_dict).   *)
Catalog ==
    {"total_distance", "total_system_time", "user_times", "total_travel_times",
     "system_and_user_time", "distance_and_user_times",
     "distance_and_user_times_man",
     "distance_and_user_times_man_with_reservation",
     "distance_and_user_times_man_SoD", "distance_and_user_times_with_walk",
     "distance_and_user_vehicle_times", "sys_time_and_detour_time",
     "IRS_study_standard", "soft_time_windows"}

(* dict.get(key, default), and dict.get(key, None) as an optional value *)
Get(d, key, default) == IF key \in DOMAIN d THEN d[key] ELSE default
GetOpt(d, key) == IF key \in DOMAIN d THEN Some(d[key]) ELSE None

(* A factory that looks "fr" up with a default instead of by subscript.    *)
SubscriptedAtBuild_no_fr(k) ==
    CASE k = "system_and_user_time" -> {"uw"}
      [] k \in {"distance_and_user_times", "distance_and_user_times_with_walk",
                "distance_and_user_vehicle_times"} -> {"vot"}
      [] k \in {"distance_and_user_times_man",
                "distance_and_user_times_man_with_reservation",
                "distance_and_user_times_man_SoD"} -> {"vot", "dc"}
      [] k = "sys_time_and_detour_time" -> {"dtw"}
      [] OTHER -> {}

(* The keys the branch of func_key k reads by subscript while the factory  *)
(* runs: vr_control_func_dict[key] raises KeyError when key is absent.     *)
SubscriptedAtBuild(k) ==
    CASE k = "system_and_user_time" -> {"uw"}
      [] k \in {"distance_and_user_times", "distance_and_user_times_with_walk",
                "distance_and_user_vehicle_times"} -> {"vot"}
      [] k \in {"distance_and_user_times_man",
                "distance_and_user_times_man_with_reservation"} -> {"vot", "dc"}
      [] k = "distance_and_user_times_man_SoD" -> {"vot", "dc", "fr"}
      [] k = "sys_time_and_detour_time" -> {"dtw"}
      [] OTHER -> {}

(* np.floor in place of np.ceil: the largest power of ten <= ceiling. *)
RewardFromCeiling_floor(ceiling) ==
    N(IF Pow10Ceil(ceiling) = ceiling THEN ceiling ELSE Pow10Ceil(ceiling) \div 10)

(* The reward LARGE_INT of the module's docstring, whatever the ceiling. *)
RewardFromCeiling_large_int(ceiling) == Plain(LARGE_INT)

(* assignment_reward_per_rq = 10 ** np.ceil(np.log10(ceiling)) *)
RewardFromCeiling(ceiling) == N(Pow10Ceil(ceiling))

(* The closure the branch of func_key k builds: the names control_f reads. *)
Closure(k, d) ==
    CASE k = "total_distance" ->
           [func_key |-> k,
            assignment_reward_per_rq |-> RewardFromCeiling(MAX_DISTANCE * Scale)]
      [] k = "total_system_time" ->
           [func_key |-> k,
            ignore_repo_stop_wt |-> Get(d, "irswt", FALSE),
            assignment_reward_per_rq |-> RewardFromCeiling(MAX_DELAY * 10 * Scale)]
      [] k = "user_times" ->
           [func_key |-> k,
            assignment_reward_per_rq |-> RewardFromCeiling(MAX_DELAY * Scale)]
      [] k = "total_travel_times" ->
           [func_key |-> k,
            assignment_reward_per_rq |-> RewardFromCeiling(MAX_DELAY * 10 * Scale)]
      [] k = "system_and_user_time" ->
           [func_key |-> k,
            user_weight |-> Get(d, "uw", 0),
            assignment_reward_per_rq |-> RewardFromCeiling(MAX_DELAY * 10 * Scale)]
      [] k \in {"distance_and_user_times", "distance_and_user_times_with_walk",
                "distance_and_user_vehicle_times"} ->
           [func_key |-> k,
            traveler_vot |-> Get(d, "vot", 0),
            assignment_reward_per_rq |->
                RewardFromCeiling(MAX_DISTANCE * MAX_BASE_DISTANCE_COST
                                  + MAX_DELAY * Get(d, "vot", 0))]
      [] k = "distance_and_user_times_man" ->
           [func_key |-> k,
            traveler_vot |-> Get(d, "vot", 0),
            distance_cost |-> Get(d, "dc", 0),
            assignment_reward_per_rq |->
                IF IsNone(GetOpt(d, "arw"))
                THEN RewardFromCeiling(MAX_DISTANCE * Get(d, "dc", 0)
                                       + MAX_DELAY * Get(d, "vot", 0))
                ELSE N(d.arw),
            ignore_reservation_stop |-> Get(d, "irs", TRUE),
            reassignment_penalty |-> GetOpt(d, "p_reassign")]
      [] k = "distance_and_user_times_man_with_reservation" ->
           [func_key |-> k,
            traveler_vot |-> Get(d, "vot", 0),
            distance_cost |-> Get(d, "dc", 0),
            reservation_rq_weight |-> Get(d, "rrw", 10),
            assignment_reward_per_rq |->
                RewardFromCeiling(MAX_DISTANCE * Get(d, "dc", 0)
                                  + MAX_DELAY * Get(d, "vot", 0)),
            ignore_reservation_stop |-> Get(d, "irs", TRUE),
            ignore_user_cost_horizon |-> GetOpt(d, "iuch")]
      [] k = "distance_and_user_times_man_SoD" ->
           [func_key |-> k,
            traveler_vot |-> Get(d, "vot", 0),
            distance_cost |-> Get(d, "dc", 0),
            fixed_reward_coeff |-> Get(d, "fr", 0)]
      [] k = "sys_time_and_detour_time" ->
           [func_key |-> k,
            detour_weight |-> Get(d, "dtw", 0),
            assignment_reward_per_rq |-> RewardFromCeiling(MAX_DELAY * 10 * Scale)]
      [] k = "IRS_study_standard" -> [func_key |-> k]
      [] k = "soft_time_windows" ->
           [func_key |-> k,
            soft_tw_rewards |-> [locked |-> NMul(Plain(LARGE_INT), 1000),
                                 in_time_window |-> Plain(LARGE_INT + 100)]]

(* The factory's result: the evaluator it returns, or the exception it raises. *)
return_pooling_objective_function(d) ==
    IF "func_key" \notin DOMAIN d THEN [evaluator |-> None, exc |-> Some("KeyError")]
    ELSE IF d.func_key \notin Catalog THEN [evaluator |-> None, exc |-> Some("IOError")]
    ELSE IF ~(SubscriptedAtBuild(d.func_key) \subseteq DOMAIN d)
         THEN [evaluator |-> None, exc |-> Some("KeyError")]
    ELSE [evaluator |-> Some(Closure(d.func_key, d)), exc |-> None]

----------------------------------------------------------------------------
(* What a call of control_f leaves behind: the value it returns or the     *)
(* exception it raises, the routing queries it made (origin, destination), *)
(* and the final values of its locals assignment_reward and fixed_reward.  *)
Returned(score, queries, assignment_reward, fixed_reward) ==
    [exc |-> None, value |-> Some(score), queries |-> queries,
     assignment_reward |-> assignment_reward, fixed_reward |-> fixed_reward]

Raised(e, queries) ==
    [exc |-> Some(e), value |-> None, queries |-> queries,
     assignment_reward |-> NZero, fixed_reward |-> NZero]

RECURSIVE SumOver(_, _)
SumOver(f, S) ==
    IF S = {} THEN 0
    ELSE LET x == CHOOSE y \in S : TRUE IN f[x] + SumOver(f, S \ {x})

RECURSIVE SumLegs(_, _)
SumLegs(queries, part) ==
    IF queries = <<>> THEN 0
    ELSE return_travel_costs_1to1(Head(queries)[1], Head(queries)[2])[part]
         + SumLegs(Tail(queries), part)

(* The loop over veh_plan.list_plan_stops that all distance terms share:   *)
(*     if pos != last_pos: query (last_pos, pos); last_pos = pos           *)
(* break_at_locked_end: the loop breaks at a stop with is_locked_end();    *)
(* boarding_only: a leg is taken only into a stop with boarding requests.  *)
(* A loop that asks the routing engine at every stop it passes. *)
RECURSIVE Route_every_stop(_, _, _, _, _)
Route_every_stop(stops, i, last_pos, break_at_locked_end, boarding_only) ==
    IF i > Len(stops) THEN <<>>
    ELSE IF break_at_locked_end /\ stops[i].locked_end THEN <<>>
    ELSE <<<<last_pos, stops[i].pos>>>>
         \o Route_every_stop(stops, i + 1, stops[i].pos, break_at_locked_end, boarding_only)

(* A loop that passes over a locked end stop and goes on after it. *)
RECURSIVE Route_continue(_, _, _, _, _)
Route_continue(stops, i, last_pos, break_at_locked_end, boarding_only) ==
    IF i > Len(stops) THEN <<>>
    ELSE IF break_at_locked_end /\ stops[i].locked_end
         THEN Route_continue(stops, i + 1, last_pos, break_at_locked_end, boarding_only)
    ELSE IF stops[i].pos # last_pos /\ (boarding_only => stops[i].boarding # {})
         THEN <<<<last_pos, stops[i].pos>>>>
              \o Route_continue(stops, i + 1, stops[i].pos, break_at_locked_end,
                                boarding_only)
         ELSE Route_continue(stops, i + 1, last_pos, break_at_locked_end, boarding_only)

RECURSIVE Route(_, _, _, _, _)
Route(stops, i, last_pos, break_at_locked_end, boarding_only) ==
    IF i > Len(stops) THEN <<>>
    ELSE IF break_at_locked_end /\ stops[i].locked_end THEN <<>>
    ELSE IF stops[i].pos # last_pos /\ (boarding_only => stops[i].boarding # {})
         THEN <<<<last_pos, stops[i].pos>>>>
              \o Route(stops, i + 1, stops[i].pos, break_at_locked_end, boarding_only)
         ELSE Route(stops, i + 1, last_pos, break_at_locked_end, boarding_only)

(* len(veh_plan.pax_info) *)
NPax(veh_plan) == Cardinality(DOMAIN veh_plan.pax_info)

(* rq_dict[rid] raises KeyError for a served rid that is not in rq_dict. *)
MissingRid(veh_plan, rq_dict) == \E rid \in DOMAIN veh_plan.pax_info : rid \notin DOMAIN rq_dict

(* sum of (drop_off_time - rq_time) over pax_info *)
SumUserTimes(veh_plan, rq_dict) ==
    SumOver([rid \in DOMAIN veh_plan.pax_info |->
                veh_plan.pax_info[rid][2] - rq_dict[rid].rq_time],
            DOMAIN veh_plan.pax_info)

(* An end time that falls back to 0 instead of simulation_time. *)
EndTime_zero(simulation_time, veh_plan) ==
    IF veh_plan.list_plan_stops # <<>>
    THEN veh_plan.list_plan_stops[Len(veh_plan.list_plan_stops)].arrival
    ELSE Some(0)

(* list_plan_stops[-1].get_planned_arrival_and_departure_time()[0], or     *)
(* simulation_time for an empty plan                                       *)
EndTime(simulation_time, veh_plan) ==
    IF veh_plan.list_plan_stops # <<>>
    THEN veh_plan.list_plan_stops[Len(veh_plan.list_plan_stops)].arrival
    ELSE Some(simulation_time)

----------------------------------------------------------------------------
(* The fourteen control_f. *)

(* A loop that never moves last_pos on: every leg starts at the vehicle. *)
f_total_distance_stale_last_pos(ev, simulation_time, veh_obj, veh_plan, rq_dict) ==
    LET assignment_reward == NMul(ev.assignment_reward_per_rq, NPax(veh_plan))
        stops == veh_plan.list_plan_stops
        queries == [i \in 1..Len(stops) |-> <<veh_obj.pos, stops[i].pos>>]
        sum_dist == SumLegs(queries, 3)
    IN Returned(NSub(Plain(sum_dist), assignment_reward), queries, assignment_reward, NZero)

f_total_distance(ev, simulation_time, veh_obj, veh_plan, rq_dict) ==
    LET assignment_reward == NMul(ev.assignment_reward_per_rq, NPax(veh_plan))
        queries == Route(veh_plan.list_plan_stops, 1, veh_obj.pos, FALSE, FALSE)
        sum_dist == SumLegs(queries, 3)
    IN Returned(NSub(Plain(sum_dist), assignment_reward), queries, assignment_reward, NZero)

f_total_system_time(ev, simulation_time, veh_obj, veh_plan, rq_dict) ==
    LET assignment_reward == NMul(ev.assignment_reward_per_rq, NPax(veh_plan))
        end_time == EndTime(simulation_time, veh_plan)
    IN IF IsNone(end_time) THEN Raised("TypeError", <<>>)
       ELSE Returned(NSub(Plain(Val(end_time) - simulation_time), assignment_reward),
                     <<>>, assignment_reward, NZero)

(* An end time that is the planned arrival at the last stop, locked or not. *)
f_total_system_time_irswt_planned(ev, simulation_time, veh_obj, veh_plan, rq_dict) ==
    f_total_system_time(ev, simulation_time, veh_obj, veh_plan, rq_dict)

f_total_system_time_irswt(ev, simulation_time, veh_obj, veh_plan, rq_dict) ==
    LET assignment_reward == NMul(ev.assignment_reward_per_rq, NPax(veh_plan))
        stops == veh_plan.list_plan_stops
        n == Len(stops)
        locked == n > 0 /\ stops[n].locked_end
        queries == IF ~locked THEN <<>>
                   ELSE IF n > 1 THEN << <<stops[n - 1].pos, stops[n].pos>> >>
                   ELSE << <<veh_obj.pos, stops[n].pos>> >>
        end_time == IF ~locked THEN EndTime(simulation_time, veh_plan)
                    ELSE IF n > 1
                         THEN IF IsNone(stops[n - 1].arrival) THEN None
                              ELSE Some(Val(stops[n - 1].arrival) + SumLegs(queries, 2))
                    ELSE Some(simulation_time + SumLegs(queries, 2))
    IN IF IsNone(end_time) THEN Raised("TypeError", queries)
       ELSE Returned(NSub(Plain(Val(end_time) - simulation_time), assignment_reward),
                     queries, assignment_reward, NZero)

f_user_times(ev, simulation_time, veh_obj, veh_plan, rq_dict) ==
    LET assignment_reward == NMul(ev.assignment_reward_per_rq, NPax(veh_plan))
    IN IF MissingRid(veh_plan, rq_dict) THEN Raised("KeyError", <<>>)
       ELSE Returned(NSub(Plain(SumUserTimes(veh_plan, rq_dict)), assignment_reward),
                     <<>>, assignment_reward, NZero)

f_total_travel_times(ev, simulation_time, veh_obj, veh_plan, rq_dict) ==
    LET assignment_reward == NMul(ev.assignment_reward_per_rq, NPax(veh_plan))
        queries == Route(veh_plan.list_plan_stops, 1, veh_obj.pos, FALSE, FALSE)
        sum_tt == SumLegs(queries, 2)
    IN Returned(NSub(Plain(sum_tt), assignment_reward), queries, assignment_reward, NZero)

f_system_and_user_time(ev, simulation_time, veh_obj, veh_plan, rq_dict) ==
    LET assignment_reward == NMul(ev.assignment_reward_per_rq, NPax(veh_plan))
        end_time == EndTime(simulation_time, veh_plan)
    IN IF MissingRid(veh_plan, rq_dict) THEN Raised("KeyError", <<>>)
       ELSE IF IsNone(end_time) THEN Raised("TypeError", <<>>)
       ELSE Returned(NSub(NAdd(Plain(Val(end_time) - simulation_time),
                               NMul(N(ev.user_weight), SumUserTimes(veh_plan, rq_dict))),
                          assignment_reward),
                     <<>>, assignment_reward, NZero)

f_distance_and_user_times(ev, simulation_time, veh_obj, veh_plan, rq_dict) ==
    LET assignment_reward == NMul(ev.assignment_reward_per_rq, NPax(veh_plan))
        queries == Route(veh_plan.list_plan_stops, 1, veh_obj.pos, FALSE, FALSE)
        sum_dist == SumLegs(queries, 3)
    IN IF MissingRid(veh_plan, rq_dict) THEN Raised("KeyError", queries)
       ELSE Returned(NSub(NAdd(NMul(N(veh_obj.distance_cost), sum_dist),
                               NMul(N(ev.traveler_vot), SumUserTimes(veh_plan, rq_dict))),
                          assignment_reward),
                     queries, assignment_reward, NZero)

(* offer is not None and offer.get("vid") is not None and offer["vid"] != veh_obj.vid *)
(* A penalty for every request that has an offer. *)
Reassigned_any_offer(prq, veh_obj) == ~IsNone(prq.offer)

Reassigned(prq, veh_obj) ==
    /\ ~IsNone(prq.offer)
    /\ ~IsNone(Val(prq.offer).vid)
    /\ Val(Val(prq.offer).vid) # veh_obj.vid

(* A distance loop without the break at a locked end stop. *)
f_distance_and_user_times_man_no_break(ev, simulation_time, veh_obj, veh_plan, rq_dict) ==
    LET queries == Route(veh_plan.list_plan_stops, 1, veh_obj.pos, FALSE, FALSE)
        sum_dist == SumLegs(queries, 3)
        reassigned == {rid \in DOMAIN veh_plan.pax_info : Reassigned(rq_dict[rid], veh_obj)}
        assignment_reward ==
            IF IsNone(ev.reassignment_penalty)
            THEN NMul(ev.assignment_reward_per_rq, NPax(veh_plan))
            ELSE NSub(NMul(ev.assignment_reward_per_rq, NPax(veh_plan)),
                      NMul(N(Val(ev.reassignment_penalty)), Cardinality(reassigned)))
    IN IF MissingRid(veh_plan, rq_dict) THEN Raised("KeyError", queries)
       ELSE Returned(NSub(NAdd(NMul(N(ev.distance_cost), sum_dist),
                               NMul(N(ev.traveler_vot), SumUserTimes(veh_plan, rq_dict))),
                          assignment_reward),
                     queries, assignment_reward, NZero)

f_distance_and_user_times_man(ev, simulation_time, veh_obj, veh_plan, rq_dict) ==
    LET queries == Route(veh_plan.list_plan_stops, 1, veh_obj.pos,
                         ev.ignore_reservation_stop, FALSE)
        sum_dist == SumLegs(queries, 3)
        reassigned == {rid \in DOMAIN veh_plan.pax_info : Reassigned(rq_dict[rid], veh_obj)}
        assignment_reward ==
            IF IsNone(ev.reassignment_penalty)
            THEN NMul(ev.assignment_reward_per_rq, NPax(veh_plan))
            ELSE NSub(NMul(ev.assignment_reward_per_rq, NPax(veh_plan)),
                      NMul(N(Val(ev.reassignment_penalty)), Cardinality(reassigned)))
    IN IF MissingRid(veh_plan, rq_dict) THEN Raised("KeyError", queries)
       ELSE Returned(NSub(NAdd(NMul(N(ev.distance_cost), sum_dist),
                               NMul(N(ev.traveler_vot), SumUserTimes(veh_plan, rq_dict))),
                          assignment_reward),
                     queries, assignment_reward, NZero)

(* A time term counted from rq_time, for every request. *)
f_distance_and_user_times_man_with_reservation_rq_time(ev, simulation_time, veh_obj, veh_plan, rq_dict) ==
    LET pax == DOMAIN veh_plan.pax_info
        reservations == {rid \in pax : rq_dict[rid].reservation}
        assignment_reward ==
            NAdd(NMul(NMul(ev.assignment_reward_per_rq, ev.reservation_rq_weight),
                      Cardinality(reservations)),
                 NMul(ev.assignment_reward_per_rq, Cardinality(pax \ reservations)))
        queries == Route(veh_plan.list_plan_stops, 1, veh_obj.pos,
                         ev.ignore_reservation_stop, FALSE)
        sum_dist == SumLegs(queries, 3)
    IN IF MissingRid(veh_plan, rq_dict) THEN Raised("KeyError", <<>>)
       ELSE Returned(NSub(NAdd(NMul(N(ev.distance_cost), sum_dist),
                               NMul(N(ev.traveler_vot), SumUserTimes(veh_plan, rq_dict))),
                          assignment_reward),
                     queries, assignment_reward, NZero)

f_distance_and_user_times_man_with_reservation(ev, simulation_time, veh_obj, veh_plan, rq_dict) ==
    LET pax == DOMAIN veh_plan.pax_info
        reservations == {rid \in pax : rq_dict[rid].reservation}
        assignment_reward ==
            NAdd(NMul(NMul(ev.assignment_reward_per_rq, ev.reservation_rq_weight),
                      Cardinality(reservations)),
                 NMul(ev.assignment_reward_per_rq, Cardinality(pax \ reservations)))
        queries == Route(veh_plan.list_plan_stops, 1, veh_obj.pos,
                         ev.ignore_reservation_stop, FALSE)
        sum_dist == SumLegs(queries, 3)
        counted == {rid \in pax :
                       ~(/\ ~IsNone(ev.ignore_user_cost_horizon)
                         /\ rq_dict[rid].ept - simulation_time
                                > Val(ev.ignore_user_cost_horizon))}
        sum_user_times ==
            SumOver([rid \in counted |-> veh_plan.pax_info[rid][2] - rq_dict[rid].ept],
                    counted)
    IN IF MissingRid(veh_plan, rq_dict) THEN Raised("KeyError", <<>>)
       ELSE Returned(NSub(NAdd(NMul(N(ev.distance_cost), sum_dist),
                               NMul(N(ev.traveler_vot), sum_user_times)),
                          assignment_reward),
                     queries, assignment_reward, NZero)

(* fixed_reward: fixed_reward_coeff * (boarding + alighting rids) over the *)
(* stops with is_fixed_stop()                                              *)
(* A bonus for the boarding and alighting rids of every stop. *)
RECURSIVE FixedCount_all_stops(_, _)
FixedCount_all_stops(stops, i) ==
    IF i > Len(stops) THEN 0
    ELSE Cardinality(stops[i].boarding) + Cardinality(stops[i].alighting)
         + FixedCount_all_stops(stops, i + 1)

RECURSIVE FixedCount(_, _)
FixedCount(stops, i) ==
    IF i > Len(stops) THEN 0
    ELSE (IF stops[i].fixed
          THEN Cardinality(stops[i].boarding) + Cardinality(stops[i].alighting)
          ELSE 0) + FixedCount(stops, i + 1)

f_distance_and_user_times_man_SoD(ev, simulation_time, veh_obj, veh_plan, rq_dict) ==
    LET assignment_reward == NMul(Plain(LARGE_INT), NPax(veh_plan))
        queries == Route(veh_plan.list_plan_stops, 1, veh_obj.pos, FALSE, FALSE)
        sum_dist == SumLegs(queries, 3)
        fixed_reward == NMul(N(ev.fixed_reward_coeff), FixedCount(veh_plan.list_plan_stops, 1))
    IN IF MissingRid(veh_plan, rq_dict) THEN Raised("KeyError", queries)
       ELSE Returned(NSub(NSub(NAdd(NMul(N(ev.distance_cost), sum_dist),
                                    NMul(N(ev.traveler_vot), SumUserTimes(veh_plan, rq_dict))),
                               assignment_reward),
                          fixed_reward),
                     queries, assignment_reward, fixed_reward)

f_distance_and_user_times_with_walk(ev, simulation_time, veh_obj, veh_plan, rq_dict) ==
    LET assignment_reward == NMul(ev.assignment_reward_per_rq, NPax(veh_plan))
        queries == Route(veh_plan.list_plan_stops, 1, veh_obj.pos, FALSE, FALSE)
        sum_dist == SumLegs(queries, 3)
        sum_user_times ==
            SumOver([rid \in DOMAIN veh_plan.pax_info |->
                        (veh_plan.pax_info[rid][2] - rq_dict[rid].rq_time)
                        + rq_dict[rid].walking_time_end],
                    DOMAIN veh_plan.pax_info)
    IN IF MissingRid(veh_plan, rq_dict) THEN Raised("KeyError", queries)
       ELSE Returned(NSub(NAdd(NMul(N(veh_obj.distance_cost), sum_dist),
                               NMul(N(ev.traveler_vot), sum_user_times)),
                          assignment_reward),
                     queries, assignment_reward, NZero)

(* veh_wait_time of one stop: departure - arrival when both are planned    *)
(* and the difference is positive                                          *)
VehWait(ps) ==
    IF ~IsNone(ps.arrival) /\ ~IsNone(ps.departure)
       /\ Val(ps.departure) - Val(ps.arrival) > 0
    THEN Val(ps.departure) - Val(ps.arrival)
    ELSE 0

(* A penalty of LARGE_INT that is not scaled by len(pax_info). *)
f_distance_and_user_vehicle_times_flat(ev, simulation_time, veh_obj, veh_plan, rq_dict) ==
    LET stops == veh_plan.list_plan_stops
        unplanned == \E i \in 1..Len(stops) : IsNone(stops[i].arrival)
        assignment_reward ==
            IF unplanned THEN NNeg(Plain(LARGE_INT))
            ELSE NMul(ev.assignment_reward_per_rq, NPax(veh_plan))
        sum_veh_wait == SumOver([i \in 1..Len(stops) |-> VehWait(stops[i])], 1..Len(stops))
        queries == Route(stops, 1, veh_obj.pos, FALSE, FALSE)
        sum_dist == SumLegs(queries, 3)
    IN IF MissingRid(veh_plan, rq_dict) THEN Raised("KeyError", queries)
       ELSE Returned(NSub(NAdd(NMul(N(veh_obj.distance_cost), sum_dist),
                               NMul(N(ev.traveler_vot),
                                    SumUserTimes(veh_plan, rq_dict) + sum_veh_wait)),
                          assignment_reward),
                     queries, assignment_reward, NZero)

f_distance_and_user_vehicle_times(ev, simulation_time, veh_obj, veh_plan, rq_dict) ==
    LET stops == veh_plan.list_plan_stops
        unplanned == \E i \in 1..Len(stops) : IsNone(stops[i].arrival)
        assignment_reward ==
            IF unplanned THEN NNeg(NMul(Plain(LARGE_INT), NPax(veh_plan)))
            ELSE NMul(ev.assignment_reward_per_rq, NPax(veh_plan))
        sum_veh_wait == SumOver([i \in 1..Len(stops) |-> VehWait(stops[i])], 1..Len(stops))
        queries == Route(stops, 1, veh_obj.pos, FALSE, FALSE)
        sum_dist == SumLegs(queries, 3)
    IN IF MissingRid(veh_plan, rq_dict) THEN Raised("KeyError", queries)
       ELSE Returned(NSub(NAdd(NMul(N(veh_obj.distance_cost), sum_dist),
                               NMul(N(ev.traveler_vot),
                                    SumUserTimes(veh_plan, rq_dict) + sum_veh_wait)),
                          assignment_reward),
                     queries, assignment_reward, NZero)

f_sys_time_and_detour_time(ev, simulation_time, veh_obj, veh_plan, rq_dict) ==
    LET assignment_reward == NMul(ev.assignment_reward_per_rq, NPax(veh_plan))
        end_time == EndTime(simulation_time, veh_plan)
        s_det == SumOver([rid \in DOMAIN veh_plan.pax_info |->
                             veh_plan.pax_info[rid][2] - veh_plan.pax_info[rid][1]
                             - rq_dict[rid].init_direct_tt],
                         DOMAIN veh_plan.pax_info)
    IN IF IsNone(end_time) THEN Raised("TypeError", <<>>)
       ELSE IF MissingRid(veh_plan, rq_dict) THEN Raised("KeyError", <<>>)
       ELSE IF NPax(veh_plan) > 0
            THEN Returned(NSub(NAdd(Plain(Val(end_time) - simulation_time),
                                    NMul(N(ev.detour_weight), s_det)),
                               assignment_reward),
                          <<>>, assignment_reward, NZero)
            ELSE Returned(NSub(Plain(Val(end_time) - simulation_time), assignment_reward),
                          <<>>, assignment_reward, NZero)

(* The requests of pax_info that have not boarded yet: prq.pu_time is None *)
Waiting(veh_plan, rq_dict) ==
    {rid \in DOMAIN veh_plan.pax_info : IsNone(rq_dict[rid].pu_time)}

(* sum of (pick_up_time - rq_time) over the waiting requests *)
SumUserWaitTimes(veh_plan, rq_dict) ==
    SumOver([rid \in Waiting(veh_plan, rq_dict) |->
                veh_plan.pax_info[rid][1] - rq_dict[rid].rq_time],
            Waiting(veh_plan, rq_dict))

RECURSIVE NSum(_, _)
NSum(f, S) ==
    IF S = {} THEN NZero
    ELSE LET x == CHOOSE y \in S : TRUE IN NAdd(f[x], NSum(f, S \ {x}))

(* IRS_study_standard: the reward of one waiting request, by lock level *)
(* Rewards with the two lower grades exchanged. *)
IrsReward_exchanged(prq) ==
    IF prq.locked THEN NMul(Plain(LARGE_INT), 10000)
    ELSE IF prq.status < G_PRQS_LOCKED THEN NMul(Plain(LARGE_INT), 100)
    ELSE Plain(LARGE_INT)

IrsReward(prq) ==
    IF prq.locked THEN NMul(Plain(LARGE_INT), 10000)
    ELSE IF prq.status < G_PRQS_LOCKED THEN Plain(LARGE_INT)
    ELSE NMul(Plain(LARGE_INT), 100)

f_IRS_study_standard(ev, simulation_time, veh_obj, veh_plan, rq_dict) ==
    LET queries == Route(veh_plan.list_plan_stops, 1, veh_obj.pos, FALSE, TRUE)
        sum_dist == SumLegs(queries, 3)
        waiting == Waiting(veh_plan, rq_dict)
        assignment_reward == NSum([rid \in waiting |-> IrsReward(rq_dict[rid])], waiting)
    IN IF MissingRid(veh_plan, rq_dict) THEN Raised("KeyError", queries)
       ELSE Returned(NSub(Plain(sum_dist + SumUserWaitTimes(veh_plan, rq_dict)),
                          assignment_reward),
                     queries, assignment_reward, NZero)

(* soft_time_windows: the reward of one waiting request *)
SoftReward(ev, prq, pick_up_time) ==
    IF prq.locked THEN ev.soft_tw_rewards.locked
    ELSE IF prq.t_pu_earliest <= pick_up_time /\ pick_up_time <= prq.t_pu_latest
         THEN ev.soft_tw_rewards.in_time_window
    ELSE Plain(LARGE_INT)

f_soft_time_windows(ev, simulation_time, veh_obj, veh_plan, rq_dict) ==
    LET queries == Route(veh_plan.list_plan_stops, 1, veh_obj.pos, FALSE, FALSE)
        sum_dist == SumLegs(queries, 3)
        waiting == Waiting(veh_plan, rq_dict)
        assignment_reward ==
            NSum([rid \in waiting |->
                     SoftReward(ev, rq_dict[rid], veh_plan.pax_info[rid][1])],
                 waiting)
    IN IF MissingRid(veh_plan, rq_dict) THEN Raised("KeyError", queries)
       ELSE Returned(NSub(Plain(sum_dist + SumUserWaitTimes(veh_plan, rq_dict)),
                          assignment_reward),
                     queries, assignment_reward, NZero)

(* The control_f the factory selected. *)
control_f(ev, simulation_time, veh_obj, veh_plan, rq_dict) ==
    CASE ev.func_key = "total_distance" ->
           f_total_distance(ev, simulation_time, veh_obj, veh_plan, rq_dict)
      [] ev.func_key = "total_system_time" ->
           IF ev.ignore_repo_stop_wt
           THEN f_total_system_time_irswt(ev, simulation_time, veh_obj, veh_plan, rq_dict)
           ELSE f_total_system_time(ev, simulation_time, veh_obj, veh_plan, rq_dict)
      [] ev.func_key = "user_times" ->
           f_user_times(ev, simulation_time, veh_obj, veh_plan, rq_dict)
      [] ev.func_key = "total_travel_times" ->
           f_total_travel_times(ev, simulation_time, veh_obj, veh_plan, rq_dict)
      [] ev.func_key = "system_and_user_time" ->
           f_system_and_user_time(ev, simulation_time, veh_obj, veh_plan, rq_dict)
      [] ev.func_key = "distance_and_user_times" ->
           f_distance_and_user_times(ev, simulation_time, veh_obj, veh_plan, rq_dict)
      [] ev.func_key = "distance_and_user_times_man" ->
           f_distance_and_user_times_man(ev, simulation_time, veh_obj, veh_plan, rq_dict)
      [] ev.func_key = "distance_and_user_times_man_with_reservation" ->
           f_distance_and_user_times_man_with_reservation(
               ev, simulation_time, veh_obj, veh_plan, rq_dict)
      [] ev.func_key = "distance_and_user_times_man_SoD" ->
           f_distance_and_user_times_man_SoD(ev, simulation_time, veh_obj, veh_plan, rq_dict)
      [] ev.func_key = "distance_and_user_times_with_walk" ->
           f_distance_and_user_times_with_walk(ev, simulation_time, veh_obj, veh_plan, rq_dict)
      [] ev.func_key = "distance_and_user_vehicle_times" ->
           f_distance_and_user_vehicle_times(ev, simulation_time, veh_obj, veh_plan, rq_dict)
      [] ev.func_key = "sys_time_and_detour_time" ->
           f_sys_time_and_detour_time(ev, simulation_time, veh_obj, veh_plan, rq_dict)
      [] ev.func_key = "IRS_study_standard" ->
           f_IRS_study_standard(ev, simulation_time, veh_obj, veh_plan, rq_dict)
      [] ev.func_key = "soft_time_windows" ->
           f_soft_time_windows(ev, simulation_time, veh_obj, veh_plan, rq_dict)

(* An except branch that logs and hands back a large score. *)
embedded_control_f_sentinel(ev, simulation_time, veh_obj, veh_plan, rq_dict) ==
    LET r == control_f(ev, simulation_time, veh_obj, veh_plan, rq_dict)
    IN IF IsNone(r.exc) THEN [result |-> r, log |-> <<>>]
       ELSE [result |-> Returned(Plain(LARGE_INT), r.queries, NZero, NZero),
             log |-> << [level |-> "error", what |-> "exception", is |-> Val(r.exc)],
                        [level |-> "error", what |-> "simulation_time", is |-> simulation_time],
                        [level |-> "error", what |-> "veh_obj", is |-> veh_obj],
                        [level |-> "error", what |-> "veh_plan", is |-> veh_plan] >>]

(* The function the factory returns: control_f inside try/except; an       *)
(* exception is logged (message, simulation_time, veh_obj, veh_plan) and   *)
(* raised again.                                                           *)
embedded_control_f(ev, simulation_time, veh_obj, veh_plan, rq_dict) ==
    LET r == control_f(ev, simulation_time, veh_obj, veh_plan, rq_dict)
    IN IF IsNone(r.exc) THEN [result |-> r, log |-> <<>>]
       ELSE [result |-> r,
             log |-> << [level |-> "error", what |-> "exception", is |-> Val(r.exc)],
                        [level |-> "error", what |-> "simulation_time", is |-> simulation_time],
                        [level |-> "error", what |-> "veh_obj", is |-> veh_obj],
                        [level |-> "error", what |-> "veh_plan", is |-> veh_plan] >>]

----------------------------------------------------------------------------
(* The configurations handed to the factory.  Weights are multiples of     *)
(* 1/Scale: vot 20 is 0.002, dc 1 is 0.0001.                               *)
Key(k) == [func_key |-> k]

DcVot == {[vot |-> 20, dc |-> 1], [vot |-> 20, dc |-> 0],
          [vot |-> 0, dc |-> 1], [vot |-> 0, dc |-> 0]}

ValidConfigs ==
    {Key(k) : k \in {"total_distance", "total_system_time", "user_times",
                     "total_travel_times", "IRS_study_standard", "soft_time_windows"}}
    \cup {Key("total_system_time") @@ [irswt |-> TRUE]}
    \cup {Key("system_and_user_time") @@ [uw |-> w] : w \in {Scale \div 2, 20 * Scale}}
    \cup {Key(k) @@ [vot |-> v] :
             k \in {"distance_and_user_times", "distance_and_user_times_with_walk",
                    "distance_and_user_vehicle_times"},
             v \in {0, 20}}
    \cup {Key("distance_and_user_times_man") @@ c : c \in DcVot}
    \cup {Key("distance_and_user_times_man") @@ [vot |-> 20, dc |-> 1] @@ o :
             o \in {[arw |-> 5 * Scale], [irs |-> FALSE], [p_reassign |-> 30 * Scale]}}
    \cup {Key("distance_and_user_times_man_with_reservation") @@ [vot |-> 20, dc |-> 1] @@ o :
             o \in {[irs |-> TRUE], [irs |-> FALSE], [rrw |-> 2], [iuch |-> 1000]}}
    \cup {Key("distance_and_user_times_man_SoD") @@ [vot |-> 20, dc |-> 1, fr |-> 5 * Scale]}
    \cup {Key("sys_time_and_detour_time") @@ [dtw |-> w] : w \in {0, Scale}}

(* Configurations the factory must refuse: no func_key, a func_key outside *)
(* the catalog, or a valid configuration with one of its keys removed.     *)
Without(d, key) == [x \in (DOMAIN d) \ {key} |-> d[x]]

Configs ==
    ValidConfigs
    \cup {Key("total_distance_2"), Key("")}
    \cup {Without(d, key) : d \in ValidConfigs, key \in {"func_key", "vot", "dc", "uw", "dtw", "fr"}}

----------------------------------------------------------------------------
(* The arguments of a call.  A field that the control_f of the evaluator   *)
(* never reads is held at one value: it cannot change what the call does.  *)
TakesRoute(ev) ==
    \/ ev.func_key \notin {"total_system_time", "user_times", "system_and_user_time",
                           "sys_time_and_detour_time"}
    \/ (ev.func_key = "total_system_time" /\ ev.ignore_repo_stop_wt)

ReadsArrival(ev) ==
    ev.func_key \in {"total_system_time", "system_and_user_time",
                     "sys_time_and_detour_time", "distance_and_user_vehicle_times"}

ReadsLockedEnd(ev) ==
    \/ (ev.func_key = "total_system_time" /\ ev.ignore_repo_stop_wt)
    \/ ev.func_key \in {"distance_and_user_times_man",
                        "distance_and_user_times_man_with_reservation"}

ReadsNow(ev) ==
    \/ ReadsArrival(ev) /\ ev.func_key # "distance_and_user_vehicle_times"
    \/ (ev.func_key = "distance_and_user_times_man_with_reservation"
        /\ ~IsNone(ev.ignore_user_cost_horizon))

ReadsDropOff(ev) ==
    ev.func_key \notin {"total_distance", "total_system_time", "total_travel_times",
                        "IRS_study_standard", "soft_time_windows"}

Timings(ev) ==
    {[arrival |-> Some(300), departure |-> Some(330)]}
    \cup (IF ReadsArrival(ev) THEN {[arrival |-> None, departure |-> None]} ELSE {})
    \cup (IF ev.func_key = "distance_and_user_vehicle_times"
          THEN {[arrival |-> Some(300), departure |-> None]} ELSE {})

(* fixed-stop flag, boarding rids, alighting rids *)
Boardings(ev) ==
    IF ev.func_key = "distance_and_user_times_man_SoD"
    THEN {[fixed |-> FALSE, boarding |-> {}, alighting |-> {}],
          [fixed |-> FALSE, boarding |-> {1}, alighting |-> {2}],
          [fixed |-> TRUE, boarding |-> {1}, alighting |-> {2}]}
    ELSE IF ev.func_key = "IRS_study_standard"
    THEN {[fixed |-> FALSE, boarding |-> {}, alighting |-> {}],
          [fixed |-> FALSE, boarding |-> {1}, alighting |-> {}]}
    ELSE {[fixed |-> FALSE, boarding |-> {}, alighting |-> {}]}

(* The vehicle stands at "A"; a stop of a plan lies at any position, the  *)
(* vehicle's own and that of the stop before it included.                  *)
StopPositions == {"A", "B", "C"}

PlanStops(ev) ==
    {[pos |-> p, locked_end |-> l] @@ t @@ b :
        p \in (IF TakesRoute(ev) THEN StopPositions ELSE {"B"}),
        l \in (IF ReadsLockedEnd(ev) THEN BOOLEAN ELSE {FALSE}),
        t \in Timings(ev),
        b \in Boardings(ev)}
    \cup
    (* plans of the SoD strategy, which are also scored by the manual one, *)
    (* may hold a locked end stop                                          *)
    (IF ev.func_key = "distance_and_user_times_man_SoD"
     THEN {[pos |-> p, locked_end |-> TRUE, fixed |-> FALSE, boarding |-> {},
            alighting |-> {}] @@ t :
              p \in StopPositions, t \in Timings(ev)}
     ELSE {})

MaxStops == 2

SeqsUpTo(S, n) == UNION {[1..len -> S] : len \in 0..n}

Rids == {1, 2}
LastRid == CHOOSE r \in Rids : \A q \in Rids : q <= r

DefaultRq ==
    [rq_time |-> 30, ept |-> 90, reservation |-> FALSE, offer |-> None,
     walking_time_end |-> 45, init_direct_tt |-> 200, pu_time |-> None,
     locked |-> FALSE, status |-> G_PRQS_LOCKED - 1,
     t_pu_earliest |-> 90, t_pu_latest |-> 390]

Requests(ev) ==
    CASE ev.func_key = "distance_and_user_times_man" /\ ~IsNone(ev.reassignment_penalty) ->
           {[DefaultRq EXCEPT !.offer = o] :
               o \in {None, Some([vid |-> None]), Some([vid |-> Some(1)]),
                      Some([vid |-> Some(2)])}}
      [] ev.func_key = "distance_and_user_times_man" /\ ev.ignore_reservation_stop
           /\ ev.assignment_reward_per_rq = N(100 * Scale) ->
           {[DefaultRq EXCEPT !.offer = o] : o \in {None, Some([vid |-> Some(2)])}}
      [] ev.func_key = "distance_and_user_times_man_with_reservation" ->
           {DefaultRq, [DefaultRq EXCEPT !.reservation = TRUE]}
           \cup (IF IsNone(ev.ignore_user_cost_horizon) THEN {}
                 ELSE {[DefaultRq EXCEPT !.reservation = TRUE, !.ept = 5000],
                       [DefaultRq EXCEPT !.ept = 1030]})
      [] ev.func_key = "IRS_study_standard" ->
           {DefaultRq,
            [DefaultRq EXCEPT !.pu_time = Some(150)],
            [DefaultRq EXCEPT !.locked = TRUE],
            [DefaultRq EXCEPT !.status = G_PRQS_LOCKED]}
      [] ev.func_key = "soft_time_windows" ->
           {DefaultRq,
            [DefaultRq EXCEPT !.pu_time = Some(150)],
            [DefaultRq EXCEPT !.locked = TRUE],
            [DefaultRq EXCEPT !.t_pu_earliest = 200]}
      [] OTHER -> {DefaultRq}

(* What the call sees of one request id: not in pax_info; in pax_info but  *)
(* not in rq_dict; in both, with its (pick-up, drop-off) times.            *)
(* Only the last request id is ever missing from rq_dict.                  *)
RidCases(ev, rid) ==
    {[served |-> FALSE, in_table |-> TRUE, times |-> <<150, 630>>, prq |-> DefaultRq]}
    \cup (IF rid = LastRid
          THEN {[served |-> TRUE, in_table |-> FALSE, times |-> <<150, 630>>,
                 prq |-> DefaultRq]}
          ELSE {})
    \cup {[served |-> TRUE, in_table |-> TRUE, times |-> <<150, d>>, prq |-> r] :
             d \in (IF ReadsDropOff(ev) THEN {630, 7230} ELSE {630}),
             r \in Requests(ev)}

Vehicles == {[pos |-> "A", vid |-> 1, distance_cost |-> 1]}

SimulationTimes(ev) == IF ReadsNow(ev) THEN {0, 60} ELSE {60}

----------------------------------------------------------------------------
(* Callers that use the one evaluator at the same time, each in a call of  *)
(* its own.  A call is a frame: where control_f stands (pc), the objects   *)
(* it was given (args; given is their value when the call began), its      *)
(* local variables (loc), and what it returned or raised (result).         *)
MaxCallers == 2
Callers == 1..MaxCallers

NoLocals ==
    [assignment_reward |-> NZero, sum_dist |-> 0, sum_veh_wait |-> 0,
     sum_user_times |-> 0, last_pos |-> "", i |-> 1, todo |-> {}, queries |-> <<>>]

IdleFrame ==
    [pc |-> "idle", args |-> None, given |-> None, loc |-> NoLocals, result |-> None]

Init ==
    /\ vr_control_func_dict = None
    /\ evaluator = None
    /\ build_exc = None
    /\ call = None
    /\ outcome = None
    /\ log = <<>>
    /\ frames = [p \in Callers |-> IdleFrame]

(* LOG.info / LOG.warning of the factory *)
BuildLog(b) ==
    IF IsNone(b.evaluator) THEN <<>>
    ELSE IF "assignment_reward_per_rq" \in DOMAIN Val(b.evaluator)
         THEN << [level |-> "info", what |-> "assignment_reward_per_rq",
                  is |-> Val(b.evaluator).assignment_reward_per_rq] >>
    ELSE IF Val(b.evaluator).func_key \in {"IRS_study_standard", "soft_time_windows"}
         THEN << [level |-> "warning", what |-> "deprecated", is |-> TRUE] >>
    ELSE <<>>

(* The dispatcher builds its objective function, once. *)
Build(d) ==
    /\ IsNone(vr_control_func_dict)
    /\ vr_control_func_dict' = Some(d)
    /\ LET b == return_pooling_objective_function(d)
       IN /\ evaluator' = b.evaluator
          /\ build_exc' = b.exc
          /\ log' = BuildLog(b)
    /\ UNCHANGED <<call, outcome, frames>>

(* The assignment search scores one candidate plan. *)
Evaluate(simulation_time, veh_obj, stops, rids) ==
    /\ ~IsNone(evaluator)
    /\ IsNone(call)
    /\ LET veh_plan == [list_plan_stops |-> stops,
                        pax_info |-> [rid \in {r \in Rids : rids[r].served} |-> rids[rid].times]]
           rq_dict == [rid \in {r \in Rids : rids[r].in_table} |-> rids[rid].prq]
           e == embedded_control_f(Val(evaluator), simulation_time, veh_obj, veh_plan, rq_dict)
       IN /\ call' = Some([simulation_time |-> simulation_time, veh_obj |-> veh_obj,
                           veh_plan |-> veh_plan, rq_dict |-> rq_dict])
          /\ outcome' = Some(e.result)
          /\ log' = e.log
    /\ UNCHANGED <<vr_control_func_dict, evaluator, build_exc, frames>>

(* The search takes the score (or the exception) and goes on to its next    *)
(* candidate plan.                                                         *)
Collect ==
    /\ ~IsNone(call)
    /\ call' = None
    /\ outcome' = None
    /\ log' = <<>>
    /\ UNCHANGED <<vr_control_func_dict, evaluator, build_exc, frames>>

Next ==
    \/ /\ IsNone(vr_control_func_dict)
       /\ \E d \in Configs : Build(d)
    \/ /\ ~IsNone(evaluator)
       /\ IsNone(call)
       /\ \E simulation_time \in SimulationTimes(Val(evaluator)),
             veh_obj \in Vehicles,
             stops \in SeqsUpTo(PlanStops(Val(evaluator)), MaxStops),
             rids \in {f \in [Rids -> UNION {RidCases(Val(evaluator), r) : r \in Rids}] :
                          \A r \in Rids : f[r] \in RidCases(Val(evaluator), r)} :
               Evaluate(simulation_time, veh_obj, stops, rids)
    \/ Collect

Spec == Init /\ [][Next]_vars

----------------------------------------------------------------------------
(* Concurrent callers.  The control_f of distance_and_user_times_man and   *)
(* of distance_and_user_vehicle_times, which assign to assignment_reward a *)
(* second time inside a loop, are taken statement by statement (one step   *)
(* for the first assignment, one for every pass of a loop, one for the     *)
(* return); the control_f of the other strategies is taken in one step.    *)
(* Steps of different calls interleave freely.                             *)
Stepwise(ev) ==
    ev.func_key \in {"distance_and_user_times_man", "distance_and_user_vehicle_times"}

CallConfigs ==
    {d \in ValidConfigs :
        /\ "vot" \in DOMAIN d => d.vot = 20
        /\ "dc" \in DOMAIN d => d.dc = 1
        /\ "uw" \in DOMAIN d => d.uw = Scale \div 2
        /\ "dtw" \in DOMAIN d => d.dtw = Scale
        /\ d.func_key = "distance_and_user_times_man" =>
              DOMAIN d \in {{"func_key", "vot", "dc"}, {"func_key", "vot", "dc", "p_reassign"}}
        /\ d.func_key = "distance_and_user_times_man_with_reservation" => "rrw" \in DOMAIN d}

StopAt(pos) ==
    [pos |-> pos, locked_end |-> FALSE, arrival |-> Some(300), departure |-> Some(330),
     fixed |-> FALSE, boarding |-> {}, alighting |-> {}]

OfferedBy(vid) == [DefaultRq EXCEPT !.offer = Some([vid |-> Some(vid)])]

(* The arguments of the calls: an empty plan; two stops and two served     *)
(* requests, one of them offered by another vehicle before; a last stop    *)
(* that is a locked end without arrival time; a served request that is not *)
(* in rq_dict.                                                             *)
CallInputs ==
    {[simulation_time |-> 60, veh_obj |-> v, veh_plan |-> pl, rq_dict |-> rq] :
        v \in Vehicles,
        pl \in {[list_plan_stops |-> <<>>, pax_info |-> <<>>]},
        rq \in {<<DefaultRq, DefaultRq>>}}
    \cup
    {[simulation_time |-> 60, veh_obj |-> v,
      veh_plan |-> [list_plan_stops |-> <<StopAt("B"), StopAt("C")>>,
                    pax_info |-> <<<<150, 630>>, <<150, 7230>>>>],
      rq_dict |-> <<OfferedBy(2), DefaultRq>>] : v \in Vehicles}
    \cup
    {[simulation_time |-> 60, veh_obj |-> v,
      veh_plan |-> [list_plan_stops |->
                        <<StopAt("B"),
                          [StopAt("C") EXCEPT !.locked_end = TRUE, !.arrival = None,
                                              !.departure = None]>>,
                    pax_info |-> <<<<150, 630>>>>],
      rq_dict |-> <<DefaultRq, DefaultRq>>] : v \in Vehicles}
    \cup
    {[simulation_time |-> 60, veh_obj |-> v,
      veh_plan |-> [list_plan_stops |-> <<StopAt("B")>>,
                    pax_info |-> <<<<150, 630>>, <<150, 630>>>>],
      rq_dict |-> <<DefaultRq>>] : v \in Vehicles}

(* The call has ended: its frame is gone, its result is with the caller. *)
Finish(fr, r) == [fr EXCEPT !.pc = "done", !.loc = NoLocals, !.result = Some(r)]

(* The next dictionary key of a loop over pax_info. *)
NextRid(todo) == CHOOSE rid \in todo : \A other \in todo : rid <= other

(* One step of control_f in frame fr. *)
StepOf(ev, fr) ==
    LET a == Val(fr.args)
        stops == a.veh_plan.list_plan_stops
        pax == a.veh_plan.pax_info
        l == fr.loc
        k == ev.func_key
    IN CASE fr.pc = "body" ->
              Finish(fr, control_f(ev, a.simulation_time, a.veh_obj, a.veh_plan, a.rq_dict))
         [] fr.pc = "reward" ->
              [fr EXCEPT !.pc = "stops",
                         !.loc = [l EXCEPT
                                    !.assignment_reward =
                                        NMul(ev.assignment_reward_per_rq, NPax(a.veh_plan)),
                                    !.last_pos = a.veh_obj.pos,
                                    !.i = 1]]
         [] fr.pc = "stops" ->
              IF l.i > Len(stops)
                 \/ (k = "distance_and_user_times_man" /\ ev.ignore_reservation_stop
                     /\ stops[l.i].locked_end)
              THEN [fr EXCEPT !.pc = "pax", !.loc = [l EXCEPT !.todo = DOMAIN pax]]
              ELSE LET ps == stops[l.i]
                       moved == ps.pos # l.last_pos
                   IN [fr EXCEPT !.loc = [l EXCEPT
                         !.assignment_reward =
                             IF k = "distance_and_user_vehicle_times" /\ IsNone(ps.arrival)
                             THEN NNeg(NMul(Plain(LARGE_INT), NPax(a.veh_plan)))
                             ELSE @,
                         !.sum_veh_wait =
                             IF k = "distance_and_user_vehicle_times" THEN @ + VehWait(ps)
                             ELSE @,
                         !.sum_dist =
                             IF moved THEN @ + return_travel_costs_1to1(l.last_pos, ps.pos)[3]
                             ELSE @,
                         !.queries = IF moved THEN Append(@, <<l.last_pos, ps.pos>>) ELSE @,
                         !.last_pos = ps.pos,
                         !.i = @ + 1]]
         [] fr.pc = "pax" ->
              IF l.todo = {}
              THEN IF k = "distance_and_user_times_man" /\ ~IsNone(ev.reassignment_penalty)
                   THEN [fr EXCEPT !.pc = "penalty", !.loc = [l EXCEPT !.todo = DOMAIN pax]]
                   ELSE [fr EXCEPT !.pc = "return"]
              ELSE LET rid == NextRid(l.todo)
                   IN IF rid \notin DOMAIN a.rq_dict
                      THEN Finish(fr, Raised("KeyError", l.queries))
                      ELSE [fr EXCEPT !.loc = [l EXCEPT
                              !.sum_user_times = @ + pax[rid][2] - a.rq_dict[rid].rq_time,
                              !.todo = @ \ {rid}]]
         [] fr.pc = "penalty" ->
              IF l.todo = {} THEN [fr EXCEPT !.pc = "return"]
              ELSE LET rid == NextRid(l.todo)
                   IN [fr EXCEPT !.loc = [l EXCEPT
                         !.assignment_reward =
                             IF Reassigned(a.rq_dict[rid], a.veh_obj)
                             THEN NSub(@, N(Val(ev.reassignment_penalty)))
                             ELSE @,
                         !.todo = @ \ {rid}]]
         [] fr.pc = "return" ->
              Finish(fr,
                Returned(
                  NSub(CASE k = "distance_and_user_times_man" ->
                              NAdd(NMul(N(ev.distance_cost), l.sum_dist),
                                   NMul(N(ev.traveler_vot), l.sum_user_times))
                         [] k = "distance_and_user_vehicle_times" ->
                              NAdd(NMul(N(a.veh_obj.distance_cost), l.sum_dist),
                                   NMul(N(ev.traveler_vot),
                                        l.sum_user_times + l.sum_veh_wait)),
                       l.assignment_reward),
                  l.queries, l.assignment_reward, NZero))

(* A step that writes the unresolved-arrival penalty into the closure's    *)
(* assignment_reward_per_rq.                                               *)
ClosureAfter_nonlocal(ev, fr) ==
    IF fr.pc = "stops" /\ ev.func_key = "distance_and_user_vehicle_times"
       /\ fr.loc.i <= Len(Val(fr.args).veh_plan.list_plan_stops)
       /\ IsNone(Val(fr.args).veh_plan.list_plan_stops[fr.loc.i].arrival)
    THEN [ev EXCEPT !.assignment_reward_per_rq = NNeg(Plain(LARGE_INT))]
    ELSE ev

(* A step that takes the reassignment penalty off the closure's            *)
(* assignment_reward_per_rq.                                               *)
ClosureAfter_accumulates(ev, fr) ==
    IF fr.pc = "penalty" /\ fr.loc.todo # {}
       /\ Reassigned(Val(fr.args).rq_dict[NextRid(fr.loc.todo)], Val(fr.args).veh_obj)
    THEN [ev EXCEPT !.assignment_reward_per_rq = NSub(@, N(Val(ev.reassignment_penalty)))]
    ELSE ev

(* The closure after a step: control_f binds assignment_reward and its     *)
(* sums as locals and only reads the variables of the factory.             *)
ClosureAfter(ev, fr) == ev

(* A loop over pax_info that takes the entries out of the dictionary. *)
ArgsAfter_popitem(ev, fr) ==
    IF fr.pc = "pax" /\ fr.loc.todo # {}
    THEN [Val(fr.args) EXCEPT !.veh_plan.pax_info =
             [rid \in (DOMAIN @) \ {NextRid(fr.loc.todo)} |-> @[rid]]]
    ELSE IF fr.pc = "body"
    THEN [Val(fr.args) EXCEPT !.veh_plan.pax_info = <<>>]
    ELSE Val(fr.args)

(* The objects of the call after a step: control_f calls getters and reads *)
(* attributes and dictionary entries; it assigns to none.                  *)
ArgsAfter(ev, fr) == Val(fr.args)

(* The LOG.error records of embedded_control_f for a call that raised. *)
ErrorLog(fr) ==
    << [level |-> "error", what |-> "exception", is |-> Val(Val(fr.result).exc)],
       [level |-> "error", what |-> "simulation_time", is |-> Val(fr.args).simulation_time],
       [level |-> "error", what |-> "veh_obj", is |-> Val(fr.args).veh_obj],
       [level |-> "error", what |-> "veh_plan", is |-> Val(fr.args).veh_plan] >>

Running(fr) == fr.pc \notin {"idle", "done"}

(* The frame of a call that begins. *)
FirstFrame(ev, a) ==
    [pc |-> IF Stepwise(ev) THEN "reward" ELSE "body",
     args |-> Some(a), given |-> Some(a), loc |-> NoLocals, result |-> None]

(* Caller p calls the evaluator. *)
Start(p, a) ==
    /\ ~IsNone(evaluator)
    /\ ~Running(frames[p])
    /\ frames' = [frames EXCEPT ![p] = FirstFrame(Val(evaluator), a)]
    /\ UNCHANGED <<vr_control_func_dict, evaluator, build_exc, call, outcome, log>>

(* The call of caller p goes on by one step. *)
Step(p) ==
    /\ Running(frames[p])
    /\ LET fr == frames[p]
           after == [StepOf(Val(evaluator), fr) EXCEPT
                        !.args = Some(ArgsAfter(Val(evaluator), fr))]
       IN /\ frames' = [frames EXCEPT ![p] = after]
          /\ evaluator' = Some(ClosureAfter(Val(evaluator), fr))
          /\ log' = IF after.pc = "done" /\ ~IsNone(Val(after.result).exc)
                    THEN ErrorLog(after) ELSE log
    /\ UNCHANGED <<vr_control_func_dict, build_exc, call, outcome>>

NextCalls ==
    \/ /\ IsNone(vr_control_func_dict)
       /\ \E d \in CallConfigs : Build(d)
    \/ \E p \in Callers, a \in CallInputs : Start(p, a)
    \/ \E p \in Callers : Step(p)

SpecCalls == Init /\ [][NextCalls]_vars

----------------------------------------------------------------------------
(* Shorthands for the properties below. *)
Built == ~IsNone(evaluator)
Ev == Val(evaluator)
Config == Val(vr_control_func_dict)
Called == ~IsNone(outcome)
Args == Val(call)
Out == Val(outcome)
Returns == Called /\ IsNone(Out.exc)
Raises == Called /\ ~IsNone(Out.exc)
Stops == Args.veh_plan.list_plan_stops
Served == DOMAIN Args.veh_plan.pax_info
Unplanned == \E i \in 1..Len(Stops) : IsNone(Stops[i].arrival)

(* The configuration values the control_f of func_key k computes with and  *)
(* for which the factory knows no default.                                 *)
UsedByControlF(k) ==
    CASE k = "system_and_user_time" -> {"uw"}
      [] k \in {"distance_and_user_times", "distance_and_user_times_with_walk",
                "distance_and_user_vehicle_times"} -> {"vot"}
      [] k \in {"distance_and_user_times_man",
                "distance_and_user_times_man_with_reservation"} -> {"vot", "dc"}
      [] k = "distance_and_user_times_man_SoD" -> {"vot", "dc", "fr"}
      [] k = "sys_time_and_detour_time" -> {"dtw"}
      [] OTHER -> {}

BadConfig(d) ==
    \/ "func_key" \notin DOMAIN d
    \/ d.func_key \notin Catalog
    \/ ~(UsedByControlF(d.func_key) \subseteq DOMAIN d)

(* C1: a configuration without a func_key of the catalog, or without a     *)
(* value its control_f needs (vot, dc, uw, dtw, fr), makes the factory     *)
(* raise and return no evaluator; the factory raises for no other          *)
(* configuration; and an exception raised by a later call is never about   *)
(* the configuration: a KeyError is a served request id missing from       *)
(* rq_dict, a TypeError a stop whose arrival time is None.                 *)
C1_ConfigErrorAtBuild ==
    /\ ~IsNone(vr_control_func_dict) =>
          /\ BadConfig(Config) <=> ~IsNone(build_exc)
          /\ IsNone(build_exc) <=> Built
    /\ Raises =>
          /\ Out.exc \in {Some("KeyError"), Some("TypeError")}
          /\ Out.exc = Some("KeyError") => MissingRid(Args.veh_plan, Args.rq_dict)
          /\ Out.exc = Some("TypeError") => Unplanned

C1_Witness ==
    /\ ~IsNone(vr_control_func_dict)
    /\ "func_key" \in DOMAIN Config
    /\ Config.func_key = "distance_and_user_times_man_SoD"
    /\ "fr" \notin DOMAIN Config
    /\ {"vot", "dc"} \subseteq DOMAIN Config
    /\ build_exc = Some("KeyError")
    /\ ~Built

----------------------------------------------------------------------------
(* The plan of the call with request rid taken out of pax_info, and what   *)
(* the same evaluator makes of a plan with the other arguments of the call *)
WithoutRid(veh_plan, rid) ==
    [veh_plan EXCEPT !.pax_info =
        [r \in (DOMAIN veh_plan.pax_info) \ {rid} |-> veh_plan.pax_info[r]]]

ScoreOf(veh_plan) ==
    control_f(Ev, Args.simulation_time, Args.veh_obj, veh_plan, Args.rq_dict)

(* The time the strategy charges a served request with. *)
UserTime(k, times, prq) ==
    CASE k = "distance_and_user_times_with_walk" ->
           times[2] - prq.rq_time + prq.walking_time_end
      [] k = "distance_and_user_times_man_with_reservation" -> times[2] - prq.ept
      [] k = "sys_time_and_detour_time" -> times[2] - times[1] - prq.init_direct_tt
      [] k \in {"IRS_study_standard", "soft_time_windows"} -> times[1] - prq.rq_time
      [] OTHER -> times[2] - prq.rq_time

WithinCeiling(rid) ==
    /\ rid \in DOMAIN Args.rq_dict
    /\ UserTime(Ev.func_key, Args.veh_plan.pax_info[rid], Args.rq_dict[rid]) <= MAX_DELAY

(* Dominance of the plan of the call over the same plan without rid. *)
Dominates(rid) ==
    LET other == ScoreOf(WithoutRid(Args.veh_plan, rid))
    IN IsNone(other.exc) => NLess(Val(Out.value), Val(other.value))

(* C2 as stated: in every strategy a plan scores strictly less than the    *)
(* same plan serving one request less, when the request's delay is at most *)
(* MAX_DELAY (every route of the model is shorter than MAX_DISTANCE).      *)
C2_Original ==
    Returns => \A rid \in Served : WithinCeiling(rid) => Dominates(rid)

(* The configured weights keep the weighted delay ceiling below the reward *)
(* of one request.                                                         *)
WeightsWithinReward(d, ev) ==
    CASE d.func_key = "system_and_user_time" ->
           NLess(NMul(N(d.uw), MAX_DELAY), ev.assignment_reward_per_rq)
      [] d.func_key = "sys_time_and_detour_time" ->
           NLess(NMul(N(d.dtw), MAX_DELAY), ev.assignment_reward_per_rq)
      [] d.func_key = "distance_and_user_times_man" ->
           /\ "arw" \notin DOMAIN d
           /\ d.dc + d.vot > 0
           /\ NLess(N(Get(d, "p_reassign", 0) + MAX_DELAY * d.vot),
                    ev.assignment_reward_per_rq)
      [] d.func_key = "distance_and_user_times_man_with_reservation" ->
           d.dc + d.vot > 0 /\ Get(d, "rrw", 10) >= 1
      [] d.func_key = "distance_and_user_times_man_SoD" ->
           NLess(NMul(N(d.vot), MAX_DELAY), Plain(LARGE_INT))
      [] OTHER -> TRUE

(* The request earns a reward at all. *)
Rewarded(rid) ==
    /\ Ev.func_key = "distance_and_user_vehicle_times" => ~Unplanned
    /\ Ev.func_key \in {"IRS_study_standard", "soft_time_windows"} =>
          IsNone(Args.rq_dict[rid].pu_time)

(* C2, amended: a plan scores strictly less than the same plan serving one *)
(* request less when the request's delay is at most MAX_DELAY, the weights *)
(* of the configuration keep the weighted delay ceiling below the reward   *)
(* of one request (uw, dtw, or vot in SoD, times MAX_DELAY; in the manual  *)
(* strategy no arw, dc and vot not both 0, p_reassign + vot * MAX_DELAY    *)
(* below the reward; rrw >= 1), every stop of the plan has an arrival time *)
(* in distance_and_user_vehicle_times, and the request has not boarded yet *)
(* in the two legacy strategies.                                           *)
C2_RewardDominance ==
    (Returns /\ WeightsWithinReward(Config, Ev)) =>
        \A rid \in Served : (WithinCeiling(rid) /\ Rewarded(rid)) => Dominates(rid)

C2_Witness ==
    /\ Returns
    /\ Ev.func_key = "user_times"
    /\ \E rid \in Served :
          /\ Args.veh_plan.pax_info[rid][2] - Args.rq_dict[rid].rq_time = MAX_DELAY
          /\ Cardinality(Served) = 2
          /\ NLess(Val(Out.value), Val(ScoreOf(WithoutRid(Args.veh_plan, rid)).value))

----------------------------------------------------------------------------
(* The ceiling of the cost terms of a strategy, times Scale. *)
CostCeiling(d) ==
    CASE d.func_key = "total_distance" -> MAX_DISTANCE * Scale
      [] d.func_key = "user_times" -> MAX_DELAY * Scale
      [] d.func_key \in {"total_system_time", "total_travel_times",
                         "system_and_user_time", "sys_time_and_detour_time"} ->
           MAX_DELAY * 10 * Scale
      [] d.func_key \in {"distance_and_user_times", "distance_and_user_times_with_walk",
                         "distance_and_user_vehicle_times"} ->
           MAX_DISTANCE * MAX_BASE_DISTANCE_COST + MAX_DELAY * d.vot
      [] d.func_key \in {"distance_and_user_times_man",
                         "distance_and_user_times_man_with_reservation",
                         "distance_and_user_times_man_SoD"} ->
           MAX_DISTANCE * d.dc + MAX_DELAY * d.vot

(* The reward of one served request: the closure's assignment_reward_per_rq, *)
(* and LARGE_INT where control_f multiplies len(pax_info) by it.             *)
PerRequestReward(ev) ==
    IF "assignment_reward_per_rq" \in DOMAIN ev THEN ev.assignment_reward_per_rq
    ELSE Plain(LARGE_INT)

RECURSIVE PowerOfTen(_)
PowerOfTen(e) == IF e = 0 THEN N(1) ELSE NMul(PowerOfTen(e - 1), 10)

(* r is the smallest power of ten that is >= c *)
SmallestPowerOfTenAtLeast(r, c) ==
    /\ \E e \in 0..14 : r = PowerOfTen(e)
    /\ NLeq(N(c), r)
    /\ NLess(r, NMul(N(c), 10))

Legacy(k) == k \in {"IRS_study_standard", "soft_time_windows"}

----------------------------------------------------------------------------
(* The positions the vehicle passes: its own, then those of the stops. *)
Path(veh_obj, stops) == <<veh_obj.pos>> \o [i \in 1..Len(stops) |-> stops[i].pos]

(* The routing engine's travel time (part 2) or distance (part 3), summed  *)
(* over the legs of a path on which the position changes.                  *)
RECURSIVE LegSum(_, _, _)
LegSum(path, i, part) ==
    IF i >= Len(path) THEN 0
    ELSE (IF path[i] # path[i + 1]
          THEN return_travel_costs_1to1(path[i], path[i + 1])[part] ELSE 0)
         + LegSum(path, i + 1, part)

PositionChanges(path) == Cardinality({i \in 1..(Len(path) - 1) : path[i] # path[i + 1]})

(* sum of (drop-off time - request time) over the served requests *)
UserTimeSum ==
    SumOver([rid \in Served |-> Args.veh_plan.pax_info[rid][2] - Args.rq_dict[rid].rq_time],
            Served)

(* C4: total_distance never raises, and its score is the sum of the        *)
(* routing distances of the legs from the vehicle's position through the   *)
(* stops in order, a leg counting only where the position changes, minus   *)
(* 100000 for each entry of pax_info.                                      *)
C4_TotalDistance ==
    (Called /\ Ev.func_key = "total_distance") =>
        /\ Returns
        /\ Out.value = Some(Plain(LegSum(Path(Args.veh_obj, Stops), 1, 3)
                                  - 100000 * Cardinality(Served)))

(* The scenario of the specification: vehicle at A, stops at B and C, one  *)
(* served request: 500 + 300 - 100000.                                     *)
C4_Witness ==
    /\ Returns
    /\ Ev.func_key = "total_distance"
    /\ Path(Args.veh_obj, Stops) = <<"A", "B", "C">>
    /\ Cardinality(Served) = 1
    /\ Out.value = Some(Plain(0 - 99200))

----------------------------------------------------------------------------
OnlyDcAndVot == DOMAIN Config = {"func_key", "vot", "dc"}

ManualScore(stops) ==
    NSub(NAdd(NMul(N(Config.dc), LegSum(Path(Args.veh_obj, stops), 1, 3)),
              NMul(N(Config.vot), UserTimeSum)),
         NMul(Ev.assignment_reward_per_rq, Cardinality(Served)))

(* The stops before the first one with is_locked_end(). *)
BeforeLockedEnd(stops) ==
    LET locked == {i \in 1..Len(stops) : stops[i].locked_end}
    IN IF locked = {} THEN stops
       ELSE SubSeq(stops, 1, (CHOOSE i \in locked : \A j \in locked : i <= j) - 1)

(* C5 as stated: distance_and_user_times_man built with dc and vot only    *)
(* scores dc * (distance of all legs through every stop) + vot * (summed   *)
(* user time) - (served requests) * (reward of one request).               *)
C5_Original ==
    (Returns /\ Ev.func_key = "distance_and_user_times_man" /\ OnlyDcAndVot) =>
        Out.value = Some(ManualScore(Stops))

(* C5, amended: ... scores dc * (distance of the legs through the stops    *)
(* that come before the first locked end stop; all legs if the plan has no *)
(* locked end stop) + vot * (summed user time) - (served requests) *       *)
(* (reward of one request): irs defaults to True.                          *)
C5_ManualScore ==
    (Returns /\ Ev.func_key = "distance_and_user_times_man" /\ OnlyDcAndVot) =>
        Out.value = Some(ManualScore(BeforeLockedEnd(Stops)))

C5_Witness ==
    /\ Returns
    /\ Ev.func_key = "distance_and_user_times_man"
    /\ OnlyDcAndVot
    /\ Config.dc = 1 /\ Config.vot = 20
    /\ Len(Stops) = 2 /\ ~Stops[1].locked_end /\ Stops[2].locked_end
    /\ Stops[1].pos # Stops[2].pos
    /\ Cardinality(Served) = 1
    /\ Out.value = Some(ManualScore(<<Stops[1]>>))

----------------------------------------------------------------------------
(* C6: in every strategy the call for a plan without stops and without     *)
(* served requests returns 0.                                              *)
C6_EmptyPlan ==
    (Called /\ Stops = <<>> /\ Served = {}) => (Returns /\ Out.value = Some(NZero))

C6_Witness ==
    /\ Returns
    /\ Ev.func_key = "total_system_time"
    /\ Args.simulation_time = 60
    /\ Stops = <<>> /\ Served = {}
    /\ Out.value = Some(NZero)

----------------------------------------------------------------------------
(* The vehicle-side cost terms of the strategies: route distance, travel   *)
(* time, system time, dwell time.                                          *)
RouteStops ==
    IF Ev.func_key \in {"distance_and_user_times_man",
                        "distance_and_user_times_man_with_reservation"}
       /\ Ev.ignore_reservation_stop
    THEN BeforeLockedEnd(Stops)
    ELSE IF Ev.func_key = "IRS_study_standard"
    THEN SelectSeq(Stops, LAMBDA ps : ps.boarding # {})
    ELSE Stops

RouteDistance == LegSum(Path(Args.veh_obj, RouteStops), 1, 3)

SystemTime ==
    LET n == Len(Stops)
    IN IF n = 0 THEN 0
       ELSE IF Ev.func_key = "total_system_time" /\ Ev.ignore_repo_stop_wt
               /\ Stops[n].locked_end
       THEN IF n = 1
            THEN return_travel_costs_1to1(Args.veh_obj.pos, Stops[n].pos)[2]
            ELSE Val(Stops[n - 1].arrival)
                 + return_travel_costs_1to1(Stops[n - 1].pos, Stops[n].pos)[2]
                 - Args.simulation_time
       ELSE Val(Stops[n].arrival) - Args.simulation_time

DwellTime == SumOver([i \in 1..Len(Stops) |-> VehWait(Stops[i])], 1..Len(Stops))

VehicleSideCost ==
    CASE Ev.func_key \in {"total_distance", "IRS_study_standard", "soft_time_windows"} ->
           Plain(RouteDistance)
      [] Ev.func_key = "total_travel_times" -> Plain(LegSum(Path(Args.veh_obj, Stops), 1, 2))
      [] Ev.func_key \in {"total_system_time", "system_and_user_time",
                          "sys_time_and_detour_time"} -> Plain(SystemTime)
      [] Ev.func_key = "user_times" -> NZero
      [] Ev.func_key \in {"distance_and_user_times", "distance_and_user_times_with_walk"} ->
           NMul(N(Args.veh_obj.distance_cost), RouteDistance)
      [] Ev.func_key = "distance_and_user_vehicle_times" ->
           NAdd(NMul(N(Args.veh_obj.distance_cost), RouteDistance),
                NMul(N(Ev.traveler_vot), DwellTime))
      [] OTHER -> NMul(N(Ev.distance_cost), RouteDistance)

(* C7 as stated: in every strategy a call that returns for a plan with an  *)
(* empty pax_info subtracts nothing: the score is the vehicle-side cost.   *)
C7_Original ==
    (Returns /\ Served = {}) =>
        /\ Out.assignment_reward = NZero
        /\ Out.fixed_reward = NZero
        /\ Out.value = Some(VehicleSideCost)

(* C7, amended: in every strategy a call that returns for a plan with an   *)
(* empty pax_info has no assignment reward; the score is the vehicle-side  *)
(* cost, except in distance_and_user_times_man_SoD, where it is that cost  *)
(* minus fr for every boarding and alighting request id of the fixed stops *)
(* (the stops keep their request ids while pax_info is empty), and so may  *)
(* lie below it.                                                           *)
C7_NothingServed ==
    (Returns /\ Served = {}) =>
        /\ Out.assignment_reward = NZero
        /\ IF Ev.func_key = "distance_and_user_times_man_SoD"
           THEN Out.value = Some(NSub(VehicleSideCost,
                                      NMul(N(Config.fr), FixedCount(Stops, 1))))
           ELSE Out.fixed_reward = NZero /\ Out.value = Some(VehicleSideCost)

C7_Witness ==
    /\ Returns
    /\ Served = {}
    /\ Ev.func_key = "sys_time_and_detour_time"
    /\ Config.dtw = Scale
    /\ Args.simulation_time = 60
    /\ Len(Stops) = 2
    /\ Out.value = Some(Plain(240))

----------------------------------------------------------------------------
(* C8: a plan with a stop whose planned arrival time is None, all of whose *)
(* request ids are in rq_dict, is never an error: the call returns a score *)
(* in every strategy, and in distance_and_user_vehicle_times the reward is *)
(* negative, so that the score is strictly larger than the sum of the      *)
(* plan's cost terms.                                                      *)
C8_UnresolvedArrival ==
    (Called /\ Unplanned /\ ~MissingRid(Args.veh_plan, Args.rq_dict)) =>
        /\ Returns
        /\ Ev.func_key = "distance_and_user_vehicle_times" =>
              /\ NLess(Out.assignment_reward, NZero)
              /\ NLess(NAdd(VehicleSideCost, NMul(N(Ev.traveler_vot), UserTimeSum)),
                       Val(Out.value))

----------------------------------------------------------------------------
Irswt == Ev.func_key = "total_system_time" /\ Ev.ignore_repo_stop_wt

ConsecutiveIn(path, q) == \E j \in 1..(Len(path) - 1) : q = <<path[j], path[j + 1]>>

(* C9 as stated: in every strategy every query of the routing engine is    *)
(* for two consecutive positions of (vehicle position, stop 1, ..., stop   *)
(* n) that differ, and a call makes at most as many queries as there are   *)
(* position changes along that sequence.                                   *)
C9_Original ==
    Called =>
        LET path == Path(Args.veh_obj, Stops)
        IN /\ \A i \in 1..Len(Out.queries) :
                 /\ Out.queries[i][1] # Out.queries[i][2]
                 /\ ConsecutiveIn(path, Out.queries[i])
           /\ Len(Out.queries) <= PositionChanges(path)

(* C9, amended: in every strategy but total_system_time with irswt every   *)
(* query is for two positions that differ, a call makes at most as many    *)
(* queries as there are position changes along (vehicle position, stop 1,  *)
(* ..., stop n), and the two positions are consecutive in that sequence    *)
(* except in IRS_study_standard, which passes over the stops without       *)
(* boarding.  total_system_time with irswt makes one query, for the last   *)
(* two positions of the sequence whether they differ or not, if the last   *)
(* stop is a locked end, and none otherwise.                               *)
C9_OracleQueries ==
    Called =>
        LET path == Path(Args.veh_obj, Stops)
            n == Len(Stops)
        IN IF Irswt
           THEN Out.queries = IF n > 0 /\ Stops[n].locked_end
                              THEN << <<path[n], path[n + 1]>> >> ELSE <<>>
           ELSE /\ \A i \in 1..Len(Out.queries) :
                      /\ Out.queries[i][1] # Out.queries[i][2]
                      /\ Ev.func_key # "IRS_study_standard" =>
                            ConsecutiveIn(path, Out.queries[i])
                /\ Len(Out.queries) <= PositionChanges(path)

C9_Witness ==
    /\ Returns
    /\ Ev.func_key = "total_distance"
    /\ Len(Stops) = 2 /\ Stops[1].pos = Stops[2].pos
    /\ Out.queries = << <<Args.veh_obj.pos, Stops[1].pos>> >>
    /\ PositionChanges(Path(Args.veh_obj, Stops)) = 1

----------------------------------------------------------------------------
(* C10: when the strategy raises during a call, the evaluator logs the     *)
(* exception, simulation_time, veh_obj and veh_plan as errors and the call *)
(* ends in that same exception, without a score; when it does not raise,   *)
(* the call returns the strategy's own score and logs nothing.             *)
C10_LoggedAndReraised ==
    Called =>
        LET r == ScoreOf(Args.veh_plan)
        IN /\ Out.exc = r.exc
           /\ Out.value = r.value
           /\ IsNone(Out.exc) = ~IsNone(Out.value)
           /\ IF IsNone(r.exc) THEN log = <<>>
              ELSE /\ Len(log) = 4
                   /\ \A i \in 1..4 : log[i].level = "error"
                   /\ log[1].is = Val(r.exc)
                   /\ log[2].is = Args.simulation_time
                   /\ log[3].is = Args.veh_obj
                   /\ log[4].is = Args.veh_plan

C10_Witness ==
    /\ Raises
    /\ Out.exc = Some("KeyError")
    /\ \E rid \in Served : rid \notin DOMAIN Args.rq_dict
    /\ IsNone(Out.value)
    /\ Len(log) = 4

----------------------------------------------------------------------------
(* The evaluator as the factory built it from the configuration, the       *)
(* outcome of a call that runs alone on it, and the frame of such a call   *)
(* after n steps.                                                          *)
AsBuilt == Val(return_pooling_objective_function(Config).evaluator)

Alone(a) == control_f(AsBuilt, a.simulation_time, a.veh_obj, a.veh_plan, a.rq_dict)

RECURSIVE AloneAfter(_, _)
AloneAfter(fr, n) ==
    IF n = 0 \/ ~Running(fr) THEN fr ELSE AloneAfter(StepOf(AsBuilt, fr), n - 1)

Done(p) == frames[p].pc = "done"
Given(p) == Val(frames[p].given)
Result(p) == Val(frames[p].result)

(* C11: two calls on the same evaluator with identical inputs end alike:   *)
(* the same score, or the same exception, whatever calls were made before, *)
(* between or during them.                                                 *)
C11_Purity ==
    \A p, q \in Callers :
        (Done(p) /\ Done(q) /\ Given(p) = Given(q)) =>
            /\ Result(p).value = Result(q).value
            /\ Result(p).exc = Result(q).exc

C11_Witness ==
    /\ Built
    /\ Ev.func_key = "distance_and_user_vehicle_times"
    /\ Done(1) /\ Done(2)
    /\ Given(1) = Given(2)
    /\ \E i \in 1..Len(Given(1).veh_plan.list_plan_stops) :
          IsNone(Given(1).veh_plan.list_plan_stops[i].arrival)
    /\ ~IsNone(Result(1).value)
    /\ Result(1).value = Result(2).value

----------------------------------------------------------------------------
(* C12: a call changes none of its inputs: while it runs and after it has  *)
(* returned or raised, the vehicle, the plan (stops, their fields,         *)
(* pax_info) and rq_dict with its requests are as they were given, and the *)
(* evaluator is as the factory built it from the configuration.            *)
C12_InputsUnchanged ==
    /\ \A p \in Callers : frames[p].pc # "idle" => frames[p].args = frames[p].given
    /\ Built => evaluator = return_pooling_objective_function(Config).evaluator

C12_Witness ==
    /\ Built
    /\ Ev.func_key = "distance_and_user_times_man"
    /\ ~IsNone(Ev.reassignment_penalty)
    /\ Done(1) /\ Result(1).exc = Some("KeyError")
    /\ Done(2) /\ IsNone(Result(2).exc) /\ Cardinality(DOMAIN Given(2).veh_plan.pax_info) = 2
    /\ frames[1].args = frames[1].given
    /\ frames[2].args = frames[2].given

----------------------------------------------------------------------------
(* The most steps a call takes. *)
StepsBound(a) == 5 + Len(a.veh_plan.list_plan_stops) + 2 * Cardinality(DOMAIN a.veh_plan.pax_info)

(* C13: under every interleaving of the steps of concurrent calls, each    *)
(* call stands at every moment exactly where a call with its inputs that   *)
(* runs alone on the evaluator stands after some number of steps, and ends *)
(* in the score (or the exception) of the call that runs alone.            *)
C13_Concurrent ==
    \A p \in Callers :
        frames[p].pc # "idle" =>
            /\ \E n \in 0..StepsBound(Given(p)) :
                  frames[p] = AloneAfter(FirstFrame(AsBuilt, Given(p)), n)
            /\ Done(p) => Result(p) = Alone(Given(p))

C13_Witness ==
    /\ Built
    /\ Ev.func_key = "distance_and_user_times_man"
    /\ frames[1].pc = "penalty" /\ frames[1].loc.todo = {2}
    /\ frames[2].pc = "return"
    /\ Given(1) # Given(2)
    /\ frames[1].loc.assignment_reward # frames[2].loc.assignment_reward

----------------------------------------------------------------------------
(* The end time the specification gives total_system_time. *)
SystemEndTime ==
    LET n == Len(Stops)
    IN IF n = 0 THEN Args.simulation_time
       ELSE IF Ev.ignore_repo_stop_wt /\ Stops[n].locked_end
       THEN IF n = 1
            THEN Args.simulation_time
                 + return_travel_costs_1to1(Args.veh_obj.pos, Stops[n].pos)[2]
            ELSE Val(Stops[n - 1].arrival)
                 + return_travel_costs_1to1(Stops[n - 1].pos, Stops[n].pos)[2]
       ELSE Val(Stops[n].arrival)

(* C14: a call of total_system_time that returns scores (end time -        *)
(* simulation_time) - reward, where with irswt and a locked-end last stop  *)
(* the end time is the planned arrival at the stop before plus the queried *)
(* travel time between the two (simulation_time plus the travel time from  *)
(* the vehicle's position if it is the only stop), whatever the planned    *)
(* time of the last stop is, and otherwise (last stop not locked, or no    *)
(* irswt) the planned arrival at the last stop.                            *)
C14_EndTime ==
    (Returns /\ Ev.func_key = "total_system_time") =>
        Out.value = Some(NSub(Plain(SystemEndTime - Args.simulation_time),
                              NMul(Ev.assignment_reward_per_rq, Cardinality(Served))))

C14_Witness ==
    /\ Returns
    /\ Ev.func_key = "total_system_time" /\ Ev.ignore_repo_stop_wt
    /\ Args.simulation_time = 60
    /\ Len(Stops) = 2
    /\ Stops[1].pos = "B" /\ Stops[1].arrival = Some(300)
    /\ Stops[2].pos = "C" /\ Stops[2].locked_end /\ IsNone(Stops[2].arrival)
    /\ Served = {}
    /\ Out.value = Some(Plain(300 + 40 - 60))

----------------------------------------------------------------------------
(* The request's latest offer names a vehicle other than the evaluated one. *)
OfferOfOtherVehicle(rid) ==
    LET offer == Args.rq_dict[rid].offer
    IN /\ offer # None
       /\ Val(offer).vid # None
       /\ Val(Val(offer).vid) # Args.veh_obj.vid

WithoutOffers(rq_dict) == [rid \in DOMAIN rq_dict |-> [rq_dict[rid] EXCEPT !.offer = None]]

(* C15: in distance_and_user_times_man with p_reassign the reward is       *)
(* (served requests) * (reward of one request) - p_reassign * (served      *)
(* requests whose latest offer names another vehicle); requests without    *)
(* offer, with an offer without vehicle id or with an offer of the         *)
(* evaluated vehicle take nothing off.  Without p_reassign the outcome is  *)
(* that of the same call with all offers removed.                          *)
C15_ReassignmentPenalty ==
    (Returns /\ Ev.func_key = "distance_and_user_times_man") =>
        IF IsNone(Ev.reassignment_penalty)
        THEN Out = control_f(Ev, Args.simulation_time, Args.veh_obj, Args.veh_plan,
                             WithoutOffers(Args.rq_dict))
        ELSE LET reward ==
                     NSub(NMul(Ev.assignment_reward_per_rq, Cardinality(Served)),
                          NMul(N(Val(Ev.reassignment_penalty)),
                               Cardinality({rid \in Served : OfferOfOtherVehicle(rid)})))
             IN /\ Out.assignment_reward = reward
                /\ Out.value =
                      Some(NSub(NAdd(NMul(N(Ev.distance_cost), RouteDistance),
                                     NMul(N(Ev.traveler_vot), UserTimeSum)),
                                reward))

C15_Witness ==
    /\ Returns
    /\ Ev.func_key = "distance_and_user_times_man"
    /\ Ev.reassignment_penalty = Some(30 * Scale)
    /\ Served = {1, 2}
    /\ Args.rq_dict[1].offer = Some([vid |-> Some(2)])
    /\ Args.rq_dict[2].offer = Some([vid |-> Some(1)])
    /\ Args.veh_obj.vid = 1
    /\ Out.assignment_reward = Plain(2 * 100 - 30)

----------------------------------------------------------------------------
(* The request's earliest pick-up time lies more than the horizon after    *)
(* simulation_time.                                                        *)
BeyondHorizon(rid) ==
    /\ Ev.ignore_user_cost_horizon # None
    /\ Args.rq_dict[rid].ept - Args.simulation_time > Val(Ev.ignore_user_cost_horizon)

ClassReward(rid) ==
    IF Args.rq_dict[rid].reservation
    THEN NMul(Ev.assignment_reward_per_rq, Ev.reservation_rq_weight)
    ELSE Ev.assignment_reward_per_rq

(* C16: distance_and_user_times_man_with_reservation scores dc * distance  *)
(* + vot * (sum of drop-off time - earliest pick-up time over the served   *)
(* requests, those whose earliest pick-up time lies beyond the horizon     *)
(* iuch left out) - (sum of the class rewards of all served requests: rrw  *)
(* * reward of one request for a reservation, the reward of one request    *)
(* otherwise).                                                             *)
C16_ReservationTerms ==
    (Returns /\ Ev.func_key = "distance_and_user_times_man_with_reservation") =>
        LET counted == {rid \in Served : ~BeyondHorizon(rid)}
            time_term ==
                SumOver([rid \in counted |->
                            Args.veh_plan.pax_info[rid][2] - Args.rq_dict[rid].ept],
                        counted)
            reward == NSum([rid \in Served |-> ClassReward(rid)], Served)
        IN /\ Out.assignment_reward = reward
           /\ Out.value =
                 Some(NSub(NAdd(NMul(N(Ev.distance_cost), RouteDistance),
                                NMul(N(Ev.traveler_vot), time_term)),
                           reward))

C16_Witness ==
    /\ Returns
    /\ Ev.func_key = "distance_and_user_times_man_with_reservation"
    /\ Ev.ignore_user_cost_horizon = Some(1000)
    /\ Args.simulation_time = 60
    /\ Stops = <<>>
    /\ Served = {1, 2}
    /\ Args.rq_dict[1].reservation /\ Args.rq_dict[1].ept = 5000
    /\ ~Args.rq_dict[2].reservation /\ Args.rq_dict[2].ept = 1030
    /\ Args.veh_plan.pax_info[2][2] = 7230
    /\ Out.assignment_reward = Plain(11 * 100)
    /\ Out.value = Some(NSub(NMul(N(20), 7230 - 1030), Plain(11 * 100)))

----------------------------------------------------------------------------
ManualOrReservation ==
    Ev.func_key \in {"distance_and_user_times_man",
                     "distance_and_user_times_man_with_reservation"}

(* The distance of all legs of the path but those into a locked end stop. *)
RECURSIVE LegSumButLocked(_, _)
LegSumButLocked(path, i) ==
    IF i >= Len(path) THEN 0
    ELSE (IF path[i] # path[i + 1] /\ ~Stops[i].locked_end
          THEN return_travel_costs_1to1(path[i], path[i + 1])[3] ELSE 0)
         + LegSumButLocked(path, i + 1)

----------------------------------------------------------------------------
(* The manual evaluator built with the dc and vot of the configuration,    *)
(* and the same with irs off and LARGE_INT as reward of one request.       *)
ManualAsBuilt ==
    Val(return_pooling_objective_function(
            [func_key |-> "distance_and_user_times_man",
             vot |-> Config.vot, dc |-> Config.dc]).evaluator)

ManualAllLegsLargeInt ==
    [ManualAsBuilt EXCEPT !.ignore_reservation_stop = FALSE,
                          !.assignment_reward_per_rq = Plain(LARGE_INT)]

ManualScoreOf(manual) ==
    Val(control_f(manual, Args.simulation_time, Args.veh_obj, Args.veh_plan,
                  Args.rq_dict).value)

(* boarding plus alighting request ids at the stops flagged fixed *)
FixedStopRids ==
    LET fixed == {i \in 1..Len(Stops) : Stops[i].fixed}
    IN SumOver([i \in fixed |-> Cardinality(Stops[i].boarding)
                                + Cardinality(Stops[i].alighting)], fixed)

(* C18 as stated: the SoD score is the score the manual strategy built     *)
(* with the same dc and vot gives the same inputs, minus fr for every      *)
(* boarding and alighting request id at the fixed stops.                   *)
C18_Original ==
    (Returns /\ Ev.func_key = "distance_and_user_times_man_SoD") =>
        Out.value = Some(NSub(ManualScoreOf(ManualAsBuilt),
                              NMul(N(Config.fr), FixedStopRids)))

(* C18, amended: the SoD score is the score of the manual strategy with    *)
(* the same dc and vot, with LARGE_INT as reward of one request and with   *)
(* irs off (all legs counted), on the same inputs, minus fr for every      *)
(* boarding and alighting request id at the fixed stops; stops that are    *)
(* not fixed earn no bonus.                                                *)
C18_FixedBonus ==
    (Returns /\ Ev.func_key = "distance_and_user_times_man_SoD") =>
        /\ Out.fixed_reward = NMul(N(Config.fr), FixedStopRids)
        /\ Out.value = Some(NSub(ManualScoreOf(ManualAllLegsLargeInt), Out.fixed_reward))

C18_Witness ==
    /\ Returns
    /\ Ev.func_key = "distance_and_user_times_man_SoD"
    /\ Len(Stops) = 2
    /\ Stops[1].fixed /\ Stops[1].boarding = {1} /\ Stops[1].alighting = {2}
    /\ ~Stops[2].fixed /\ Stops[2].boarding = {1}
    /\ Served = {1, 2}
    /\ Out.fixed_reward = N(2 * 5 * Scale)

----------------------------------------------------------------------------
(* The lock level of a request: 3 hard-locked, 2 past the locking          *)
(* threshold (status >= G_PRQS_LOCKED), 1 otherwise.                       *)
LockLevel(rid) ==
    IF Args.rq_dict[rid].locked THEN 3
    ELSE IF Args.rq_dict[rid].status >= G_PRQS_LOCKED THEN 2
    ELSE 1

Boarded(rid) == Args.rq_dict[rid].pu_time # None

(* The reward the strategy gives request rid: that of the plan serving rid *)
(* alone.                                                                  *)
RewardOf(rid) ==
    ScoreOf([Args.veh_plan EXCEPT !.pax_info =
                [r \in {rid} |-> Args.veh_plan.pax_info[r]]]).assignment_reward

(* C19: in IRS_study_standard every served request that has not boarded    *)
(* earns a positive reward, larger for a hard-locked request than for one  *)
(* past the locking threshold, and larger for that than for any other; the *)
(* reward of the plan is the sum of these; a served request that has       *)
(* boarded earns nothing and leaves the score as it is without it.         *)
C19_GradedReward ==
    (Returns /\ Ev.func_key = "IRS_study_standard") =>
        /\ \A rid \in Served : ~Boarded(rid) => NLess(NZero, RewardOf(rid))
        /\ \A r1, r2 \in Served :
              (~Boarded(r1) /\ ~Boarded(r2) /\ LockLevel(r1) > LockLevel(r2)) =>
                  NLess(RewardOf(r2), RewardOf(r1))
        /\ Out.assignment_reward = NSum([rid \in Served |-> RewardOf(rid)], Served)
        /\ \A rid \in Served :
              Boarded(rid) =>
                  /\ RewardOf(rid) = NZero
                  /\ ScoreOf(WithoutRid(Args.veh_plan, rid)).value = Out.value

C19_Witness ==
    /\ Returns
    /\ Ev.func_key = "IRS_study_standard"
    /\ Served = {1, 2}
    /\ LockLevel(1) = 2 /\ ~Boarded(1)
    /\ LockLevel(2) = 1 /\ ~Boarded(2)
    /\ NLess(RewardOf(2), RewardOf(1))
    /\ Out.assignment_reward = Plain(LARGE_INT * 101)

====
